---- MODULE Spec2Model ----
(***************************************************************************)
(* Model of src/src/transcoding.c: the in-memory audio transcoding call    *)
(* transcoding(), its input/output negotiation and its fill/drain loop.    *)
(*                                                                         *)
(* The codec, container, resampler and FIFO library calls are the          *)
(* environment: each call site is modelled by the outcomes the call can    *)
(* report (an error, a count, data present or not).  Sample counts and     *)
(* frame sizes are small; sample rates keep their real values because only *)
(* arithmetic depends on them.                                             *)
(***************************************************************************)
EXTENDS Integers, Sequences, FiniteSets, TLC

VARIABLES
    pc,           \* position in transcoding() (or in the negotiation harness)
    ret,          \* transcoding()'s local ret
    nb_streams,   \* (*input_format_context)->nb_streams, as the demuxer reports it
    args,         \* TranscodingArgs: [sample_rate, bit_rate]
    input_ctx,    \* decoder context fields: [channels, sample_fmt, sample_rate]
    encoder,      \* the AVCodec the output container maps to
    encoder_ctx,  \* the encoder context being negotiated / negotiated
    neg_ret,      \* return value of the last set_encoder_params call (2 = not called)
    ptr,          \* the six local handles of transcoding(): TRUE = non-NULL
    acq,          \* per resource: how many times it was acquired
    rel,          \* per resource: how many times it was released
    relLog,       \* the releases, in the order they happened
    dst,          \* bio->buf, the destination buffer: "none", "live", "freed"
    bioSize,      \* bio->size, the logical size of the destination
    fifoSize,     \* av_audio_fifo_size(fifo)
    pts,          \* the presentation-time accumulator
    finished,     \* the loop's finished flag
    pktLeft,      \* packets the input container still holds
    decPending,   \* frames the decoder holds back until it is flushed
    encPending,   \* packets the encoder holds back until it is flushed
    decoded,      \* total samples of all decoded frames given to the resampler
    converted,    \* total samples the resampler reported
    chunks,       \* number of chunks handed to the encoder
    lastChunk,    \* [pts, n] of the last chunk handed to the encoder
    lastRead,     \* [req, avail, got] of the last av_audio_fifo_read
    failStage,    \* the stage whose failure was reported first ("none": no failure)
    trailerDone,  \* av_write_trailer has completed successfully
    hdrWrites,    \* calls of avformat_write_header made so far
    trlWrites,    \* calls of av_write_trailer made so far
    fifoAllocFailed,  \* av_audio_fifo_alloc was called and returned NULL
    lastOps,      \* the loop's library calls made by the step just taken, in order
    lastConv,     \* [delay, n, capacity, got] of the swr_convert call of that step
    lastBlk,      \* allocations and frees of the converted-sample block in that step
    out           \* caller-visible outputs: [written, size, bit_rate, dur_num, dur_den]

vars == << pc, ret, nb_streams, args, input_ctx, encoder, encoder_ctx, neg_ret,
           ptr, acq, rel, relLog, dst, bioSize, fifoSize, pts, finished,
           pktLeft, decPending, encPending, decoded, converted, chunks,
           lastChunk, lastRead, failStage, trailerDone, hdrWrites, trlWrites,
           fifoAllocFailed, lastOps, lastConv, lastBlk, out >>

(***************************************************************************)
(* Bounds of the model.                                                    *)
(***************************************************************************)
MaxPackets == 3        \* packets in the source
MaxFrameSamples == 2   \* samples of one decoded frame: 1..MaxFrameSamples
MaxDecDelay == 1       \* frames a decoder may hold back
MaxEncDelay == 1       \* packets an encoder may hold back
SwrMaxDelay == 1       \* output samples the resampler may keep pending
PacketBytes == 417     \* bytes of one encoded packet

(***************************************************************************)
(* Program constants.                                                      *)
(***************************************************************************)
RetInit == 1414092869          \* AVERROR(AVERROR_EXIT) = -(-MKTAG('E','X','I','T'))
AverrorEnomem == -12           \* AVERROR(ENOMEM)
OpusRate == 48000
KiloRound == 1000
IntMax == 2147483647
IntMin == -IntMax - 1

Min(a, b) == IF a < b THEN a ELSE b

Resources == {"fifo", "swr", "enc", "ofmt", "dec", "ifmt"}

(***************************************************************************)
(* av_get_default_channel_layout: mono and stereo have a default layout    *)
(* (AV_CH_LAYOUT_MONO = 4, AV_CH_LAYOUT_STEREO = 3); a channel count with  *)
(* no default gives 0.                                                     *)
(***************************************************************************)
av_get_default_channel_layout(channels) ==
    CASE channels = 1 -> 4
      [] channels = 2 -> 3
      [] OTHER -> 0

(***************************************************************************)
(* The capability arrays of an AVCodec are sentinel-terminated C arrays;   *)
(* a NULL array is the empty sequence, any other array ends with its       *)
(* terminator.  ScanArray is the while loop of set_encoder_params: it      *)
(* walks from idx to the terminator and returns found.                     *)
(***************************************************************************)
RECURSIVE ScanArray(_, _, _, _)
ScanArray(arr, idx, term, val) ==
    IF arr[idx + 1] = term THEN 0
    ELSE IF arr[idx + 1] = val THEN 1
    ELSE ScanArray(arr, idx + 1, term, val)

\* line 194: the candidate sample rate
CandidateRate(a, in) ==
    IF a.sample_rate > 0 THEN a.sample_rate ELSE in.sample_rate

\* lines 196-228: the rate chosen against the encoder's supported_samplerates
NegotiateRateNoFallback(enc, cand) == cand
NegotiateRate(enc, cand) ==
    IF enc.supported_samplerates # << >>
    THEN IF ScanArray(enc.supported_samplerates, 0, 0, cand) = 1
         THEN cand
         ELSE enc.supported_samplerates[1]
    ELSE cand

\* lines 230-234: the Opus override
OpusOverrideMissing(enc, rate) == rate
OpusOverride(enc, rate) ==
    IF enc.id = "OPUS" THEN OpusRate ELSE rate

\* lines 168-185: the sample format chosen against the encoder's sample_fmts
NegotiateFmtKeepInput(enc, in) == in.sample_fmt
NegotiateFmt(enc, in) ==
    IF enc.sample_fmts # << >>
    THEN IF ScanArray(enc.sample_fmts, 0, -1, in.sample_fmt) = 1
         THEN in.sample_fmt
         ELSE enc.sample_fmts[1]
    ELSE in.sample_fmt

\* lines 144-166: is the derived layout acceptable to the encoder
LayoutSupportedAlways(enc, layout) == TRUE
LayoutSupported(enc, layout) ==
    IF enc.channel_layouts # << >>
    THEN ScanArray(enc.channel_layouts, 0, 0, layout) = 1
    ELSE TRUE

(***************************************************************************)
(* set_encoder_params: returns [ret, ctx], ctx being the encoder context   *)
(* as the function leaves it.                                              *)
(***************************************************************************)
set_encoder_params(a, ctx, enc, in) ==
    LET layout == av_get_default_channel_layout(in.channels)
        c1 == [ctx EXCEPT !.channels = in.channels,
                          !.channel_layout = layout,
                          !.sample_fmt = in.sample_fmt]
    IN  IF ~LayoutSupported(enc, layout)
        THEN [ret |-> -1, ctx |-> c1]
        ELSE [ret |-> 0,
              ctx |-> [c1 EXCEPT
                  !.sample_fmt = NegotiateFmt(enc, in),
                  !.sample_rate =
                      OpusOverride(enc, NegotiateRate(enc, CandidateRate(a, in))),
                  !.bit_rate = IF a.bit_rate > 0 THEN a.bit_rate ELSE @]]

\* avcodec_alloc_context3(output_codec): a fresh encoder context
FreshEncoderCtx(enc) ==
    [channels |-> 0, channel_layout |-> 0, sample_fmt |-> -1,
     sample_rate |-> 0, bit_rate |-> enc.bit_rate]

NoCtx == [channels |-> 0, channel_layout |-> 0, sample_fmt |-> -1,
          sample_rate |-> 0, bit_rate |-> 0]

(***************************************************************************)
(* Arithmetic of the report (lines 995-998) and of the resampler request   *)
(* (lines 628-633).                                                        *)
(***************************************************************************)
\* av_rescale_rnd(a, b, c, AV_ROUND_UP) = ceil(a * b / c)
av_rescale_rnd_up(a, b, c) == (a * b + c - 1) \div c

\* floor(a * b / c), computed without leaving 32 bits while the result fits
MulDivFloor(a, b, c) == a * (b \div c) + (a * (b % c)) \div c
MulDivFits(a, b, c) ==
    a = 0 \/ (b \div c) <= (IntMax - (a * (b % c)) \div c) \div a

\* C's % : the remainder has the sign of the dividend
CRem(a, b) ==
    LET m == a % b IN IF a >= 0 \/ m = 0 THEN m ELSE m - b

\* line 998: *out_bit_rate - *out_bit_rate % 1000
RoundKilo(br) == br - CRem(br, KiloRound)

(***************************************************************************)
(* Lines 995-998.  out_duration = (float)pts / sample_rate and             *)
(* out_bit_rate = (int)(8 * size / out_duration), that is                  *)
(* trunc(8 * size * sample_rate / pts), then rounded down to a multiple of *)
(* 1000.  The conversion of a float that does not fit an int (a quotient   *)
(* above INT_MAX, or a division by a zero duration) is undefined: the      *)
(* builds produce INT_MIN (x86) or INT_MAX (saturating targets).           *)
(***************************************************************************)
BitRateOutcomes(size, p, rate) ==
    IF p > 0 /\ MulDivFits(8 * size, rate, p)
    THEN { RoundKilo(MulDivFloor(8 * size, rate, p)) }
    ELSE { RoundKilo(IntMin), RoundKilo(IntMax) }

(***************************************************************************)
(* The resampler.  It has consumed `decoded` input samples and reported    *)
(* `converted` output samples; what it holds is the difference, at most    *)
(* SwrMaxDelay output samples (plus a fraction of one).                    *)
(***************************************************************************)
\* swr_get_delay(resample_context, input rate): pending input samples, rounded up
swr_get_delay(dec, conv, inRate, outRate) ==
    (dec * outRate - conv * inRate + outRate - 1) \div outRate

\* lines 630-633
DesiredNoDelay(delay, n, inRate, outRate) == av_rescale_rnd_up(n, outRate, inRate)
desired_nb_samples(delay, n, inRate, outRate) ==
    av_rescale_rnd_up(delay + n, outRate, inRate)

\* whole output samples the resampler could emit once it has taken n more samples
SwrAvail(dec, conv, n, inRate, outRate) ==
    ((dec + n) * outRate - conv * inRate) \div inRate

\* swr_convert(ctx, out, capacity, in, n): the counts it may report (-1: an error)
swr_convert(dec, conv, capacity, n, inRate, outRate) ==
    LET avail == SwrAvail(dec, conv, n, inRate, outRate)
    IN  { k \in 0..avail :
            /\ k <= capacity
            /\ (avail - k <= SwrMaxDelay \/ k = Min(avail, capacity)) }
        \cup {-1}

(***************************************************************************)
(* Resource bookkeeping.                                                   *)
(***************************************************************************)
RECURSIVE CountIn(_, _)
CountIn(s, r) ==
    IF s = << >> THEN 0
    ELSE (IF Head(s) = r THEN 1 ELSE 0) + CountIn(Tail(s), r)

Acquired(S) == [r \in Resources |-> IF r \in S THEN acq[r] + 1 ELSE acq[r]]
Released(s) == [r \in Resources |-> rel[r] + CountIn(s, r)]

(***************************************************************************)
(* The sources and encoders the pipeline is run on.                        *)
(***************************************************************************)
Mp3Like == [id |-> "MP3", channel_layouts |-> <<4, 3, 0>>, sample_fmts |-> <<8, 1, -1>>,
            supported_samplerates |-> <<44100, 48000, 32000, 0>>,
            frame_size |-> 3, bit_rate |-> 128000]
OpusLike == [id |-> "OPUS", channel_layouts |-> <<4, 0>>, sample_fmts |-> <<1, 3, -1>>,
             supported_samplerates |-> <<48000, 24000, 0>>,
             frame_size |-> 2, bit_rate |-> 64000]
PcmLike == [id |-> "PCM", channel_layouts |-> << >>, sample_fmts |-> <<1, -1>>,
            supported_samplerates |-> << >>,
            frame_size |-> 0, bit_rate |-> 0]

PipelineEncoders == {Mp3Like, OpusLike, PcmLike}
PipelineArgs == {[sample_rate |-> 0, bit_rate |-> 0],
                 [sample_rate |-> 22050, bit_rate |-> 64000]}
PipelineInputs == {[channels |-> 1, sample_fmt |-> 1, sample_rate |-> 44100],
                   [channels |-> 2, sample_fmt |-> 1, sample_rate |-> 22050]}
HeaderSizes == {45, 8192}

NoChunk == [pts |-> -1, n |-> 0]
NoRead == [req |-> 0, avail |-> 0, got |-> 0]
NoConv == [delay |-> 0, n |-> 0, capacity |-> 0, got |-> 0]
\* the converted-sample block of one step: the pointer array (arr) and the sample
\* storage (buf) it points to; staleUse: the array was read after it was freed
NoBlk == [arrAllocs |-> 0, arrFrees |-> 0, bufAllocs |-> 0, bufFrees |-> 0,
          staleUse |-> FALSE]
NoOut == [written |-> FALSE, size |-> 0, bit_rate |-> 0, dur_num |-> 0, dur_den |-> 1]

\* the locals of transcoding() as lines 842-847 initialise them
InitLocals ==
    /\ ret = RetInit
    /\ ptr = [r \in Resources |-> FALSE]
    /\ acq = [r \in Resources |-> 0]
    /\ rel = [r \in Resources |-> 0]
    /\ relLog = << >>
    /\ dst = "none"
    /\ bioSize = 0
    /\ fifoSize = 0
    /\ pts = 0
    /\ finished = FALSE
    /\ decPending = 0
    /\ encPending = 0
    /\ decoded = 0
    /\ converted = 0
    /\ chunks = 0
    /\ lastChunk = NoChunk
    /\ lastRead = NoRead
    /\ failStage = "none"
    /\ trailerDone = FALSE
    /\ hdrWrites = 0
    /\ trlWrites = 0
    /\ fifoAllocFailed = FALSE
    /\ lastOps = << >>
    /\ lastConv = NoConv
    /\ lastBlk = NoBlk
    /\ out = NoOut
    /\ encoder_ctx = NoCtx
    /\ neg_ret = 2

Init ==
    /\ pc = "start"
    /\ InitLocals
    /\ nb_streams \in 0..2
    /\ args \in PipelineArgs
    /\ input_ctx \in PipelineInputs
    /\ encoder \in PipelineEncoders
    /\ pktLeft \in 0..MaxPackets

cfgVars == << nb_streams, args, input_ctx, encoder >>
loopVars == << fifoSize, pts, finished, pktLeft, decPending, encPending,
               decoded, converted, chunks, lastChunk, lastRead >>
resVars == << ptr, acq, rel, relLog >>
callVars == << hdrWrites, trlWrites, fifoAllocFailed >>
histVars == << failStage, trailerDone, callVars >>

\* a step that makes none of the loop's library calls
NoTrace == lastOps' = << >> /\ lastConv' = NoConv /\ lastBlk' = NoBlk

\* the stage recorded when a step reports stage st ("ok", "none": no failure)
Failing(st) == IF st \in {"ok", "none"} THEN failStage ELSE st

(***************************************************************************)
(* open_input_stream (lines 19-127), called at line 851.  Each failure     *)
(* stage gives what was acquired, what the function itself released and in *)
(* which order; the handles it leaves to transcoding() are NULL on every   *)
(* failure.                                                                *)
(***************************************************************************)
\* line 68
StreamCountAny(n) == n >= 1
StreamCountOk(n) == n = 1

InputStagesBeforeCount == {"alloc_ctx", "init_io", "open_input", "stream_info"}
InputStagesAfterCount == {"find_decoder", "alloc_dec", "params", "open2"}

InputAcquires(stage) ==
    CASE stage = "alloc_ctx" -> {}
      [] stage \in {"params", "open2", "ok"} -> {"ifmt", "dec"}
      [] OTHER -> {"ifmt"}

\* lines 119-120 free the decoder context, then close the input
InputReleasesOpen2 == <<"dec", "ifmt">>
\* lines 101-102 close the input, then free the decoder context
InputReleasesParams == <<"ifmt", "dec">>

InputReleases(stage) ==
    CASE stage = "alloc_ctx" -> << >>
      [] stage = "params" -> InputReleasesParams
      [] stage = "open2" -> InputReleasesOpen2
      [] stage = "ok" -> << >>
      [] OTHER -> <<"ifmt">>

InputOutcomes ==
    InputStagesBeforeCount
      \cup (IF StreamCountOk(nb_streams)
            THEN InputStagesAfterCount \cup {"ok"}
            ELSE {"stream_count"})

open_input_stream ==
    /\ pc = "start"
    /\ NoTrace
    /\ \E stage \in InputOutcomes :
         /\ acq' = Acquired(InputAcquires(stage))
         /\ rel' = Released(InputReleases(stage))
         /\ relLog' = relLog \o InputReleases(stage)
         /\ ptr' = [ptr EXCEPT !["ifmt"] = (stage = "ok"), !["dec"] = (stage = "ok")]
         /\ pc' = IF stage = "ok" THEN "alloc_dst" ELSE "cleanup"
         /\ failStage' = Failing(stage)
    /\ UNCHANGED << ret, cfgVars, encoder_ctx, neg_ret, dst, bioSize, loopVars,
                    trailerDone, callVars, out >>

\* lines 36-37: av_malloc's result is dereferenced unchecked
open_input_stream_null_bio ==
    /\ pc = "start"
    /\ NoTrace
    /\ acq' = Acquired({"ifmt"})
    /\ pc' = "crashed"
    /\ UNCHANGED << ret, cfgVars, encoder_ctx, neg_ret, ptr, rel, relLog, dst,
                    bioSize, loopVars, histVars, out >>

(***************************************************************************)
(* Lines 856-879: the destination buffer.  The capacity estimate (lines   *)
(* 857-867, bio->_total) is read only by the write callback of the I/O     *)
(* context, which is not in this file; it is left out.                     *)
(***************************************************************************)
alloc_destination ==
    /\ pc = "alloc_dst"
    /\ NoTrace
    /\ \/ /\ dst' = "live"                  \* av_malloc(estimated_bytes) succeeded
          /\ pc' = "open_output"
          /\ UNCHANGED << ret, failStage >>
       \/ /\ dst' = dst                     \* bio->buf == NULL
          /\ ret' = AverrorEnomem
          /\ failStage' = Failing("alloc_dst")
          /\ pc' = "cleanup"
       \/ /\ dst' = dst                     \* bio == NULL, dereferenced at line 871
          /\ UNCHANGED << ret, failStage >>
          /\ pc' = "crashed"
    /\ bioSize' = 0
    /\ UNCHANGED << cfgVars, encoder_ctx, neg_ret, resVars, loopVars, trailerDone, callVars, out >>

(***************************************************************************)
(* open_output_stream (lines 245-347), called at line 881.                 *)
(***************************************************************************)
OutputStagesBeforeParams == {"out_alloc_ctx", "out_init_io", "out_find_encoder", "out_new_stream", "out_alloc_enc"}
OutputStagesAfterParams == {"out_open2", "out_params_from_ctx"}

OutputAcquires(stage) ==
    CASE stage = "out_alloc_ctx" -> {}
      [] stage \in {"out_init_io", "out_find_encoder", "out_new_stream", "out_alloc_enc"} -> {"ofmt"}
      [] OTHER -> {"ofmt", "enc"}

\* lines 342-345 (and 271-272 for init_io)
OutputReleases(stage) ==
    CASE stage = "out_alloc_ctx" -> << >>
      [] stage \in {"out_init_io", "out_find_encoder", "out_new_stream", "out_alloc_enc"} -> <<"ofmt">>
      [] stage = "ok" -> << >>
      [] OTHER -> <<"enc", "ofmt">>

open_output_stream ==
    /\ pc = "open_output"
    /\ NoTrace
    /\ LET neg == set_encoder_params(args, FreshEncoderCtx(encoder), encoder, input_ctx)
           outcomes == OutputStagesBeforeParams
                         \cup (IF neg.ret # 0 THEN {"out_set_params"}
                               ELSE OutputStagesAfterParams \cup {"ok"})
       IN \E stage \in outcomes :
            /\ acq' = Acquired(OutputAcquires(stage))
            /\ rel' = Released(OutputReleases(stage))
            /\ relLog' = relLog \o OutputReleases(stage)
            /\ ptr' = [ptr EXCEPT !["ofmt"] = (stage = "ok"), !["enc"] = (stage = "ok")]
            /\ IF stage \in OutputStagesBeforeParams
               THEN UNCHANGED << encoder_ctx, neg_ret >>
               ELSE /\ neg_ret' = neg.ret
                    /\ encoder_ctx' = IF stage = "ok" THEN neg.ctx ELSE NoCtx
            /\ pc' = IF stage = "ok" THEN "init_resampler" ELSE "cleanup"
            /\ failStage' = Failing(stage)
    /\ UNCHANGED << ret, cfgVars, dst, bioSize, loopVars, trailerDone, callVars, out >>

(***************************************************************************)
(* init_resampler (lines 374-416), init_fifo (419-431) and                 *)
(* write_output_file_header (434-444), called at lines 888, 894 and 900.   *)
(***************************************************************************)
init_resampler ==
    /\ pc = "init_resampler"
    /\ NoTrace
    /\ \/ /\ UNCHANGED resVars              \* swr_alloc failed
          /\ failStage' = Failing("swr_alloc")
          /\ pc' = "cleanup"
       \/ /\ acq' = Acquired({"swr"})       \* swr_init failed, swr_free at line 412
          /\ rel' = Released(<<"swr">>)
          /\ relLog' = relLog \o <<"swr">>
          /\ ptr' = ptr
          /\ failStage' = Failing("swr_init")
          /\ pc' = "cleanup"
       \/ /\ acq' = Acquired({"swr"})
          /\ ptr' = [ptr EXCEPT !["swr"] = TRUE]
          /\ UNCHANGED << rel, relLog, failStage >>
          /\ pc' = "init_fifo"
    /\ UNCHANGED << ret, cfgVars, encoder_ctx, neg_ret, dst, bioSize, loopVars,
                    trailerDone, callVars, out >>

\* line 425 tests the address of the handle, never NULL: init_fifo always returns 0
init_fifo ==
    /\ pc = "init_fifo"
    /\ NoTrace
    /\ \/ /\ acq' = Acquired({"fifo"})
          /\ ptr' = [ptr EXCEPT !["fifo"] = TRUE]
          /\ fifoAllocFailed' = FALSE
       \/ /\ UNCHANGED << acq, ptr >>      \* av_audio_fifo_alloc returned NULL
          /\ fifoAllocFailed' = TRUE
    /\ pc' = "write_header"
    /\ UNCHANGED << ret, cfgVars, encoder_ctx, neg_ret, rel, relLog, dst, bioSize,
                    loopVars, failStage, trailerDone, hdrWrites, trlWrites, out >>

write_output_file_header ==
    /\ pc = "write_header"
    /\ NoTrace
    /\ \/ /\ pc' = "cleanup"
          /\ failStage' = Failing("write_header")
          /\ bioSize' = bioSize
       \/ /\ pc' = "loop_top"
          /\ failStage' = failStage
          /\ \E h \in HeaderSizes : bioSize' = bioSize + h
    /\ hdrWrites' = hdrWrites + 1
    /\ UNCHANGED << ret, cfgVars, encoder_ctx, neg_ret, resVars, dst, loopVars,
                    trailerDone, trlWrites, fifoAllocFailed, out >>

(***************************************************************************)
(* decode_audio_frame (lines 447-499).  The results it can give from a     *)
(* container holding pk packets, a decoder holding dp frames back, and the *)
(* caller's finished flag fin: [fail, finished, data_present, n, pktLeft,  *)
(* decPending, ops]; fail is "none" or the stage that failed, ops the      *)
(* library calls made ("frame": the decoder set data_present).             *)
(***************************************************************************)
DecRes(e, f, d, n, pk, dp, o) ==
    [fail |-> e, finished |-> f, data_present |-> d, n |-> n,
     pktLeft |-> pk, decPending |-> dp, ops |-> o]

\* lines 491-494
ClearFinishedNever(fin, data_present) == fin
ClearFinished(fin, data_present) ==
    IF fin /\ data_present THEN FALSE ELSE fin

decode_audio_frame(pk, dp, fin) ==
    \* av_read_frame failed with an error other than AVERROR_EOF
    { DecRes("read_frame", fin, FALSE, 0, pk, dp, <<"read_frame">>) }
    \cup
    (IF pk > 0
     THEN \* a packet was read
          LET o == <<"read_frame", "decode">>
          IN  { DecRes("decode", fin, FALSE, 0, pk - 1, dp, o) }
              \cup { DecRes("none", ClearFinished(fin, TRUE), TRUE, n, pk - 1, dp,
                            Append(o, "frame")) : n \in 1..MaxFrameSamples }
              \cup { DecRes("none", ClearFinished(fin, FALSE), FALSE, 0, pk - 1, dp, o) }
              \cup (IF dp < MaxDecDelay
                    THEN { DecRes("none", ClearFinished(fin, FALSE), FALSE, 0, pk - 1,
                                  dp + 1, o) }
                    ELSE {})
     ELSE \* AVERROR_EOF: *finished = 1, the decoder is flushed with an empty packet
          LET o == <<"read_frame", "decode_flush">>
          IN  { DecRes("decode", TRUE, FALSE, 0, pk, dp, o) }
              \cup (IF dp > 0
                    THEN { DecRes("none", ClearFinished(TRUE, TRUE), TRUE, n, pk, dp - 1,
                                  Append(o, "frame")) : n \in 1..MaxFrameSamples }
                    ELSE { DecRes("none", ClearFinished(TRUE, FALSE), FALSE, 0, pk, dp,
                                  o) }))

(***************************************************************************)
(* add_samples_to_fifo (lines 548-579): [fail, size, ops] for a FIFO of    *)
(* `size` samples given k more.                                            *)
(***************************************************************************)
add_samples_to_fifo(size, k) ==
    IF k <= 0
    THEN { [fail |-> "none", size |-> size, ops |-> << >>] }
    ELSE { [fail |-> "fifo_realloc", size |-> size, ops |-> <<"fifo_realloc">>],
           [fail |-> "fifo_write", size |-> size,
            ops |-> <<"fifo_realloc", "fifo_write">>],
           [fail |-> "none", size |-> size + k,
            ops |-> <<"fifo_realloc", "fifo_write">>] }

(***************************************************************************)
(* init_converted_samples (lines 506-545): [fail, handle, blk], handle      *)
(* being the caller's converted_input_samples as the function leaves it:   *)
(* "null", "live", or "dangling" when it still points to the array that    *)
(* line 536 freed.                                                         *)
(***************************************************************************)
init_converted_samples ==
    { \* calloc failed (lines 517-523)
      [fail |-> TRUE, handle |-> "null", blk |-> NoBlk],
      \* av_samples_alloc failed: line 535 frees entry 0 of the array, which is
      \* NULL, line 536 frees the array; the caller's pointer is not reset
      [fail |-> TRUE, handle |-> "dangling",
       blk |-> [NoBlk EXCEPT !.arrAllocs = 1, !.arrFrees = 1]],
      [fail |-> FALSE, handle |-> "live",
       blk |-> [NoBlk EXCEPT !.arrAllocs = 1, !.bufAllocs = 1]] }

\* lines 669-674: the cleanup label of read_decode_convert_and_store
FreeConvertedSamples(handle, blk) ==
    CASE handle = "null" -> blk
      [] handle = "live" -> [blk EXCEPT !.bufFrees = @ + 1, !.arrFrees = @ + 1]
      [] handle = "dangling" -> [blk EXCEPT !.arrFrees = @ + 1, !.staleUse = TRUE]

(***************************************************************************)
(* read_decode_convert_and_store (lines 585-678): [fail, finished,         *)
(* pktLeft, decPending, decoded, converted, fifoSize, ops, conv, blk,      *)
(* crash].  Freeing the array a second time is undefined: the allocator    *)
(* aborts the process (crash) or the function returns its error.           *)
(***************************************************************************)
RdcsRes(e, f, pk, dp, dc, cv, sz, o, c) ==
    [fail |-> e, finished |-> f, pktLeft |-> pk, decPending |-> dp,
     decoded |-> dc, converted |-> cv, fifoSize |-> sz, ops |-> o, conv |-> c,
     blk |-> NoBlk, crash |-> FALSE]

WithBlk(r, b) == [r EXCEPT !.blk = b]

\* line 659: the count handed to add_samples_to_fifo
StoredCountCapacity(capacity, got) == capacity
StoredCount(capacity, got) == got

\* lines 624-665
ConvertAndStore(d, inRate, outRate) ==
    LET delay == swr_get_delay(decoded, converted, inRate, outRate)
        desired == desired_nb_samples(delay, d.n, inRate, outRate)
        o == Append(d.ops, "convert")
        Stored ==
            UNION { LET c == [delay |-> delay, n |-> d.n, capacity |-> desired, got |-> k]
                    IN  IF k < 0
                        THEN { RdcsRes("convert", d.finished, d.pktLeft, d.decPending,
                                       decoded + d.n, converted, fifoSize, o, c) }
                        ELSE { RdcsRes(w.fail, d.finished, d.pktLeft, d.decPending,
                                       decoded + d.n, converted + k, w.size,
                                       o \o w.ops, c) :
                                 w \in add_samples_to_fifo(fifoSize, StoredCount(desired, k)) }
                  : k \in swr_convert(decoded, converted, desired, d.n, inRate, outRate) }
        NotStored == RdcsRes("converted_samples", d.finished, d.pktLeft, d.decPending,
                             decoded, converted, fifoSize, d.ops, NoConv)
    IN  UNION { LET b == FreeConvertedSamples(i.handle, i.blk)
                IN  IF ~i.fail
                    THEN { WithBlk(r, b) : r \in Stored }
                    ELSE IF i.handle = "dangling"
                    THEN { WithBlk([NotStored EXCEPT !.crash = cr], b) : cr \in BOOLEAN }
                    ELSE { WithBlk(NotStored, b) }
              : i \in init_converted_samples }

read_decode_convert_and_store(inRate, outRate) ==
    { RdcsRes("input_frame", finished, pktLeft, decPending, decoded, converted,
              fifoSize, << >>, NoConv) }
    \cup
    UNION { IF d.fail # "none"
            THEN { RdcsRes(d.fail, d.finished, d.pktLeft, d.decPending,
                           decoded, converted, fifoSize, d.ops, NoConv) }
            ELSE IF d.data_present
            THEN ConvertAndStore(d, inRate, outRate)
            ELSE { RdcsRes("none", d.finished, d.pktLeft, d.decPending,
                           decoded, converted, fifoSize, d.ops, NoConv) }
          : d \in decode_audio_frame(pktLeft, decPending, finished) }

(***************************************************************************)
(* encode_audio_frame (lines 729-776) for a frame of n samples, n = -1     *)
(* being the NULL frame of a flush call: [fail, pts, chunks, lastChunk,    *)
(* encPending, bioSize, data_present, ops].  The encoder holds `held`      *)
(* packets once it has taken the frame; it gives one out, or keeps them.   *)
(* In ops, "stamp" is lines 742-743 and "packet" is the encoder setting    *)
(* data_present.                                                           *)
(***************************************************************************)
EncRes(e, p, c, lc, ep, bs, d, o) ==
    [fail |-> e, pts |-> p, chunks |-> c, lastChunk |-> lc, encPending |-> ep,
     bioSize |-> bs, data_present |-> d, ops |-> o]

\* lines 740-744
PtsAfterStuck(p, n) == p
PtsAfter(p, n) == IF n >= 0 THEN p + n ELSE p

encode_audio_frame_stamp_on_packet(n) ==
    LET p == PtsAfter(pts, n)
        c == IF n >= 0 THEN chunks + 1 ELSE chunks
        lc == IF n >= 0 THEN [pts |-> pts, n |-> n] ELSE lastChunk
        held == IF n >= 0 THEN encPending + 1 ELSE encPending
        o == IF n >= 0 THEN <<"encode">> ELSE <<"encode_flush">>
        ow == o \o <<"packet", "stamp", "write_frame">>
    IN  { EncRes("encode", pts, c, lc, encPending, bioSize, FALSE, o) }
        \cup (IF held > 0
              THEN { EncRes("write_frame", p, c, lc, held - 1, bioSize, TRUE, ow),
                     EncRes("none", p, c, lc, held - 1, bioSize + PacketBytes, TRUE, ow) }
              ELSE {})
        \cup (IF (n >= 0 /\ held <= MaxEncDelay) \/ (n < 0 /\ held = 0)
              THEN { EncRes("none", pts, c, lc, held, bioSize, FALSE, o) }
              ELSE {})

encode_audio_frame(n) ==
    LET p == PtsAfter(pts, n)
        c == IF n >= 0 THEN chunks + 1 ELSE chunks
        lc == IF n >= 0 THEN [pts |-> pts, n |-> n] ELSE lastChunk
        held == IF n >= 0 THEN encPending + 1 ELSE encPending
        o == IF n >= 0 THEN <<"stamp", "encode">> ELSE <<"encode_flush">>
        ow == o \o <<"packet", "write_frame">>
    IN  { EncRes("encode", p, c, lc, encPending, bioSize, FALSE, o) }
        \cup (IF held > 0
              THEN { EncRes("write_frame", p, c, lc, held - 1, bioSize, TRUE, ow),
                     EncRes("none", p, c, lc, held - 1, bioSize + PacketBytes, TRUE, ow) }
              ELSE {})
        \cup (IF (n >= 0 /\ held <= MaxEncDelay) \/ (n < 0 /\ held = 0)
              THEN { EncRes("none", p, c, lc, held, bioSize, FALSE, o) }
              ELSE {})

(***************************************************************************)
(* load_encode_and_write (lines 779-822): [fail, fifoSize, lastRead, ops]  *)
(* and the fields of the encode step.                                      *)
(***************************************************************************)
\* line 790
ChunkSizeFull(size, fs) == fs
ChunkSize(size, fs) == Min(size, fs)

\* av_audio_fifo_read(fifo, data, n): the count it returns (-1: an error)
av_audio_fifo_read(size, n) == { Min(size, n), -1 }

\* line 714: av_frame_get_buffer allocates nothing for a frame whose nb_samples
\* is not positive and reports an error
FrameBufferNeverRefused(n) == FALSE
FrameBufferRefused(n) == n <= 0

LoadRes(e, sz, lr, enc, o) ==
    [fail |-> e, fifoSize |-> sz, lastRead |-> lr, pts |-> enc.pts,
     chunks |-> enc.chunks, lastChunk |-> enc.lastChunk,
     encPending |-> enc.encPending, bioSize |-> enc.bioSize, ops |-> o]

NoEncode == EncRes("none", pts, chunks, lastChunk, encPending, bioSize, FALSE, << >>)

load_encode_and_write(fs) ==
    LET frame_size == ChunkSize(fifoSize, fs)
    IN  \* init_output_frame failed
        { LoadRes("output_frame", fifoSize, lastRead, NoEncode, << >>) }
        \cup
        (IF FrameBufferRefused(frame_size) THEN {}
         ELSE UNION {
                LET lr == [req |-> frame_size, avail |-> fifoSize, got |-> g]
                    left == IF g > 0 THEN fifoSize - g ELSE fifoSize
                IN  IF g < frame_size
                    THEN { LoadRes("fifo_read", left, lr, NoEncode, <<"fifo_read">>) }
                    ELSE { LoadRes(e.fail, left, lr, e, <<"fifo_read">> \o e.ops) :
                             e \in encode_audio_frame(frame_size) }
                : g \in av_audio_fifo_read(fifoSize, frame_size) })

(***************************************************************************)
(* The loop of transcoding(), lines 909-984.                               *)
(***************************************************************************)
output_frame_size == encoder.frame_size

\* line 922
FillCondOneMore(size, fs) == size <= fs
FillCond(size, fs) == size < fs
\* lines 951-952
DrainCondNever(size, fs, fin) == FALSE
DrainCondAnyRemainder(size, fs, fin) == size > 0
DrainCondFullOnly(size, fs, fin) == size >= fs
DrainCond(size, fs, fin) == size >= fs \/ (fin /\ size > 0)

\* line 913
loop_top ==
    /\ pc = "loop_top"
    /\ NoTrace
    /\ finished' = FALSE
    /\ pc' = "fill"
    /\ UNCHANGED << ret, cfgVars, encoder_ctx, neg_ret, resVars, dst, bioSize, out,
                    fifoSize, pts, pktLeft, decPending, encPending, decoded,
                    converted, chunks, lastChunk, lastRead, histVars >>

\* line 922 with fifo == NULL: av_audio_fifo_size dereferences it
fifo_null_deref ==
    /\ pc = "fill"
    /\ NoTrace
    /\ ~ptr["fifo"]
    /\ pc' = "crashed"
    /\ UNCHANGED << ret, cfgVars, encoder_ctx, neg_ret, resVars, dst, bioSize, out,
                    loopVars, histVars >>

\* lines 928-943: where one iteration of the fill loop leads
AfterFillRetry(fail, fin) == IF fin THEN "drain" ELSE "fill"
AfterFill(fail, fin) ==
    IF fail # "none" THEN "cleanup"
    ELSE IF fin THEN "drain" ELSE "fill"

\* lines 922-944, one iteration of the inner loop
fill_step ==
    /\ pc = "fill"
    /\ ptr["fifo"]
    /\ FillCond(fifoSize, output_frame_size)
    /\ \E r \in read_decode_convert_and_store(input_ctx.sample_rate, encoder_ctx.sample_rate) :
         /\ finished' = r.finished
         /\ pktLeft' = r.pktLeft
         /\ decPending' = r.decPending
         /\ decoded' = r.decoded
         /\ converted' = r.converted
         /\ fifoSize' = r.fifoSize
         /\ lastOps' = r.ops
         /\ lastConv' = r.conv
         /\ lastBlk' = r.blk
         /\ failStage' = IF r.crash THEN failStage ELSE Failing(r.fail)
         /\ pc' = IF r.crash THEN "crashed" ELSE AfterFill(r.fail, r.finished)
    /\ UNCHANGED << ret, cfgVars, encoder_ctx, neg_ret, resVars, dst, bioSize, out,
                    pts, encPending, chunks, lastChunk, lastRead, trailerDone,
                    callVars >>

fill_exit ==
    /\ pc = "fill"
    /\ NoTrace
    /\ ptr["fifo"]
    /\ ~FillCond(fifoSize, output_frame_size)
    /\ pc' = "drain"
    /\ UNCHANGED << ret, cfgVars, encoder_ctx, neg_ret, resVars, dst, bioSize, out,
                    loopVars, histVars >>

\* lines 951-962, one iteration of the inner loop
drain_step ==
    /\ pc = "drain"
    /\ DrainCond(fifoSize, output_frame_size, finished)
    /\ \E r \in load_encode_and_write(output_frame_size) :
         /\ fifoSize' = r.fifoSize
         /\ lastRead' = r.lastRead
         /\ pts' = r.pts
         /\ chunks' = r.chunks
         /\ lastChunk' = r.lastChunk
         /\ encPending' = r.encPending
         /\ bioSize' = r.bioSize
         /\ lastOps' = r.ops
         /\ failStage' = Failing(r.fail)
         /\ pc' = IF r.fail # "none" THEN "cleanup" ELSE "drain"
    /\ UNCHANGED << ret, cfgVars, encoder_ctx, neg_ret, resVars, dst, out,
                    finished, pktLeft, decPending, decoded, converted, trailerDone,
                    callVars >>
    /\ lastConv' = NoConv
    /\ lastBlk' = NoBlk

\* lines 968 and 981-984: where the end of the drain loop leads
AfterDrainAgain(fin) == "loop_top"
AfterDrain(fin) == IF fin THEN "flush" ELSE "loop_top"

\* lines 968-983: leave the loop for the encoder flush, or go round again
drain_exit ==
    /\ pc = "drain"
    /\ NoTrace
    /\ ~DrainCond(fifoSize, output_frame_size, finished)
    /\ pc' = AfterDrain(finished)
    /\ UNCHANGED << ret, cfgVars, encoder_ctx, neg_ret, resVars, dst, bioSize, out,
                    loopVars, histVars >>

\* lines 974-980: where one iteration of the do-while leads
AfterFlushOnce(fail, data_written) == IF fail # "none" THEN "cleanup" ELSE "trailer"
AfterFlush(fail, data_written) ==
    IF fail # "none" THEN "cleanup"
    ELSE IF data_written THEN "flush" ELSE "trailer"

\* lines 972-980, one iteration of the do-while
flush_step ==
    /\ pc = "flush"
    /\ \E r \in encode_audio_frame(-1) :
         /\ pts' = r.pts
         /\ chunks' = r.chunks
         /\ lastChunk' = r.lastChunk
         /\ encPending' = r.encPending
         /\ bioSize' = r.bioSize
         /\ lastOps' = r.ops
         /\ failStage' = Failing(r.fail)
         /\ pc' = AfterFlush(r.fail, r.data_present)
    /\ UNCHANGED << ret, cfgVars, encoder_ctx, neg_ret, resVars, dst, out, fifoSize,
                    finished, pktLeft, decPending, decoded, converted, lastRead,
                    trailerDone, callVars >>
    /\ lastConv' = NoConv
    /\ lastBlk' = NoBlk

(***************************************************************************)
(* Lines 986-1000: the trailer and the report to the caller.               *)
(***************************************************************************)
\* lines 987-990
AfterTrailerUnchecked(failed) == "report"
AfterTrailer(failed) == IF failed THEN "cleanup" ELSE "report"

write_output_file_trailer ==
    /\ pc = "trailer"
    /\ \E failed \in BOOLEAN :
         /\ pc' = AfterTrailer(failed)
         /\ trailerDone' = ~failed
         /\ failStage' = Failing(IF failed THEN "write_trailer" ELSE "none")
    /\ trlWrites' = trlWrites + 1
    /\ lastOps' = <<"write_trailer">>
    /\ lastConv' = NoConv
    /\ lastBlk' = NoBlk
    /\ UNCHANGED << ret, cfgVars, encoder_ctx, neg_ret, resVars, dst, bioSize, out,
                    loopVars, hdrWrites, fifoAllocFailed >>

report ==
    /\ pc = "report"
    /\ NoTrace
    /\ \E br \in BitRateOutcomes(bioSize, pts, encoder_ctx.sample_rate) :
         out' = [written |-> TRUE, size |-> bioSize, bit_rate |-> br,
                 dur_num |-> pts, dur_den |-> encoder_ctx.sample_rate]
    /\ ret' = 0
    /\ pc' = "cleanup"
    /\ UNCHANGED << cfgVars, encoder_ctx, neg_ret, resVars, dst, bioSize, loopVars,
                    histVars >>

(***************************************************************************)
(* Lines 1002-1026: the cleanup label.  Each handle is released when it is *)
(* non-NULL, in this order; bio and bio->buf are not touched.              *)
(***************************************************************************)
CleanupOrder == <<"fifo", "swr", "enc", "ofmt", "dec", "ifmt">>

CleanupReleases(p) == SelectSeq(CleanupOrder, LAMBDA r : p[r])

cleanup ==
    /\ pc = "cleanup"
    /\ NoTrace
    /\ rel' = Released(CleanupReleases(ptr))
    /\ relLog' = relLog \o CleanupReleases(ptr)
    /\ ptr' = [r \in Resources |-> FALSE]
    /\ pc' = "done"
    /\ UNCHANGED << ret, cfgVars, encoder_ctx, neg_ret, acq, dst, bioSize, loopVars,
                    histVars, out >>

Next ==
    \/ open_input_stream
    \/ open_input_stream_null_bio
    \/ alloc_destination
    \/ open_output_stream
    \/ init_resampler
    \/ init_fifo
    \/ write_output_file_header
    \/ loop_top
    \/ fifo_null_deref
    \/ fill_step
    \/ fill_exit
    \/ drain_step
    \/ drain_exit
    \/ flush_step
    \/ write_output_file_trailer
    \/ report
    \/ cleanup

Spec == Init /\ [][Next]_vars

(***************************************************************************)
(* Negotiation alone: set_encoder_params applied to every combination of   *)
(* request, input and encoder capability arrays below.                     *)
(***************************************************************************)
NegRequestedRates == {0, 22050, 44100, 48000}
NegInputRates == {8000, 44100, 48000}
NegRateArrays == {<< >>, <<48000, 0>>, <<44100, 48000, 32000, 0>>, <<8000, 16000, 0>>}
NegLayoutArrays == {<< >>, <<4, 3, 0>>, <<3, 0>>}
NegFmtArrays == {<< >>, <<1, -1>>, <<8, 1, -1>>, <<3, 8, -1>>}
NegEncoderIds == {"OPUS", "MP3", "PCM"}

NegInit ==
    /\ pc = "neg"
    /\ InitLocals
    /\ nb_streams = 1
    /\ pktLeft = 0
    /\ args \in [sample_rate : NegRequestedRates, bit_rate : {0, 64000}]
    /\ input_ctx \in [channels : {1, 2}, sample_fmt : {1, 8}, sample_rate : NegInputRates]
    /\ encoder \in [id : NegEncoderIds, channel_layouts : NegLayoutArrays,
                    sample_fmts : NegFmtArrays, supported_samplerates : NegRateArrays,
                    frame_size : {0}, bit_rate : {128000}]

negotiate ==
    /\ pc = "neg"
    /\ NoTrace
    /\ LET neg == set_encoder_params(args, FreshEncoderCtx(encoder), encoder, input_ctx)
       IN  /\ neg_ret' = neg.ret
           /\ encoder_ctx' = neg.ctx
    /\ pc' = "neg_done"
    /\ UNCHANGED << ret, cfgVars, resVars, dst, bioSize, loopVars, histVars, out >>

NegNext == negotiate

NegSpec == NegInit /\ [][NegNext]_vars

(***************************************************************************)
(* Properties.                                                             *)
(***************************************************************************)
Returned == pc = "done"
Succeeded == pc = "done" /\ ret = 0
Failed == failStage # "none"

\* C1: every failing path returns a non-zero code and writes none of the
\* caller-visible outputs (buffer pointer and size, bit rate, duration); the
\* return code is 0 only if the trailer write completed successfully.
C1_FailureReturnsNonZeroWritesNothing ==
    /\ Failed => (ret # 0 /\ out = NoOut)
    /\ ret = 0 => (trailerDone /\ ~Failed)
    /\ out.written => trailerDone

C1_Witness ==
    Returned /\ failStage = "write_trailer" /\ chunks > 0 /\ ret # 0 /\ ~out.written

\* C2: when the stream count is not exactly 1 the call fails inside input
\* negotiation, before the destination buffer is allocated and before any
\* output container, encoder, resampler or FIFO state is created.
C2_StreamCountFailsBeforeOutput ==
    nb_streams # 1 =>
        /\ pc \in {"start", "cleanup", "done", "crashed"}
        /\ dst = "none"
        /\ \A r \in {"ofmt", "enc", "swr", "fifo"} : acq[r] = 0 /\ ~ptr[r]
        /\ encoder_ctx = NoCtx
        /\ Returned => (ret # 0 /\ Failed)

C2_Witness ==
    Returned /\ nb_streams = 2 /\ failStage = "stream_count" /\ ret # 0 /\ dst = "none"

\* C3: whenever the destination buffer has been allocated and the call then
\* fails, the destination buffer is freed before the call returns; it is left
\* allocated on return only when the call succeeds.
C3_DestinationFreedOnFailure ==
    (Returned /\ ret # 0) => dst # "live"

RankOf(r) == CHOOSE i \in 1..Len(CleanupOrder) : CleanupOrder[i] = r

\* C4: on every exit path each of the FIFO, resampler, encoder context, output
\* container, decoder context and input container that was acquired is released
\* exactly once (never twice, never left unreleased, never released when not
\* acquired), and the releases happen in the order FIFO, resampler, encoder,
\* output container, decoder, input container.
C4_ReleasedOnceInOrder ==
    Returned =>
        /\ \A r \in Resources : rel[r] = acq[r] /\ acq[r] <= 1
        /\ \A i, j \in 1..Len(relLog) : i < j => RankOf(relLog[i]) < RankOf(relLog[j])

C5_PtsStep ==
    /\ pts' >= pts
    /\ chunks' # chunks =>
         /\ chunks' = chunks + 1
         /\ lastChunk'.pts = pts
         /\ pts' = pts + lastChunk'.n
         /\ chunks > 0 =>
              /\ lastChunk'.pts > lastChunk.pts
              /\ lastChunk'.pts - lastChunk.pts = lastChunk.n

\* C5: the presentation-time accumulator starts at 0, never decreases, and
\* across any two consecutive chunks handed to the encoder it is strictly larger
\* for the second chunk, the difference being the sample count of the first.
C5_PtsStrictlyIncreasing == (pts = 0) /\ [][C5_PtsStep]_vars

C5_Witness == chunks >= 3 /\ lastChunk.pts > 0 /\ lastChunk.n < output_frame_size

\* C6: a FIFO read is issued only with a requested count that is at most the
\* number of samples in the FIFO; a read that returns fewer samples than
\* requested makes the call fail rather than encode a partial chunk.
C6_FifoReadWithinAvailable ==
    /\ lastRead.req <= lastRead.avail
    /\ lastRead.got < lastRead.req =>
         /\ failStage = "fifo_read"
         /\ pc \in {"cleanup", "done"}
         /\ ret # 0

C6_Witness ==
    /\ lastRead.req > 0
    /\ lastRead.req < output_frame_size
    /\ lastRead.req = lastRead.avail
    /\ lastRead.got = lastRead.req
    /\ finished

ScaledInput == (decoded * out.dur_den) \div input_ctx.sample_rate

\* C7: for every successful call, the final presentation-time accumulator (the
\* reported duration times the output rate) falls short of the decoded input
\* samples scaled by output_rate/input_rate by at most the samples the
\* resampler can hold as pending delay, and never exceeds it.
C7_DurationWithinResamplerDelay ==
    Succeeded =>
        /\ out.dur_num = pts
        /\ out.dur_num <= ScaledInput
        /\ ScaledInput - out.dur_num <= SwrMaxDelay

C7_Witness ==
    /\ Succeeded
    /\ out.dur_den # input_ctx.sample_rate
    /\ chunks >= 2
    /\ ScaledInput - out.dur_num = SwrMaxDelay
    /\ decoded >= 3

\* C8: on success with a positive duration, the reported bit rate is the largest
\* multiple of 1000 that does not exceed 8 * destinationSize / duration.
C8_BitRateFloorToKilo ==
    (Succeeded /\ out.dur_num > 0) =>
        /\ out.bit_rate % KiloRound = 0
        /\ out.bit_rate \div KiloRound
             = MulDivFloor(8 * out.size, out.dur_den, KiloRound * out.dur_num)

\* C9: when the chosen encoder is Opus, the negotiated output sample rate is
\* 48000 for every requested rate, input rate and encoder-declared rate set.
C9_OpusAlways48000 ==
    (pc = "neg_done" /\ neg_ret = 0 /\ encoder.id = "OPUS") =>
        encoder_ctx.sample_rate = 48000

C9_Witness ==
    /\ pc = "neg_done" /\ neg_ret = 0 /\ encoder.id = "OPUS"
    /\ args.sample_rate = 22050
    /\ encoder.supported_samplerates = <<8000, 16000, 0>>
    /\ encoder_ctx.sample_rate = 48000

DeclaredRates ==
    { encoder.supported_samplerates[i] : i \in 1..(Len(encoder.supported_samplerates) - 1) }
DeclaredLayouts ==
    { encoder.channel_layouts[i] : i \in 1..(Len(encoder.channel_layouts) - 1) }
RequestedOrInputRate ==
    IF args.sample_rate > 0 THEN args.sample_rate ELSE input_ctx.sample_rate

\* C10: for a non-Opus encoder that declares a finite set of supported rates, a
\* candidate rate (the requested rate when given, otherwise the input rate) that
\* is not in the set gives the encoder's first declared rate, without error; a
\* candidate in the set, or an encoder with no restriction, gives the candidate.
C10_RateFallbackToFirstDeclared ==
    (pc = "neg_done" /\ encoder.id # "OPUS") =>
        /\ neg_ret # 0 =>
             /\ encoder.channel_layouts # << >>
             /\ encoder_ctx.channel_layout \notin DeclaredLayouts
        /\ neg_ret = 0 =>
             encoder_ctx.sample_rate =
                 IF encoder.supported_samplerates = << >> THEN RequestedOrInputRate
                 ELSE IF RequestedOrInputRate \in DeclaredRates THEN RequestedOrInputRate
                 ELSE encoder.supported_samplerates[1]

C10_Witness ==
    /\ pc = "neg_done" /\ neg_ret = 0 /\ encoder.id # "OPUS"
    /\ args.sample_rate = 22050
    /\ encoder.supported_samplerates = <<44100, 48000, 32000, 0>>
    /\ encoder_ctx.sample_rate = 44100
    /\ input_ctx.sample_rate = 48000

DerivedLayout == av_get_default_channel_layout(input_ctx.channels)
LayoutRefused ==
    encoder.channel_layouts # << >> /\ DerivedLayout \notin DeclaredLayouts

\* C11: when the encoder declares a finite set of channel layouts and the
\* default layout of the input channel count is not in it, negotiation fails: no
\* declared layout is put in its place, the encoder is never opened, the call
\* never gets past open_output_stream, no header is written, and the call
\* returns a failure.
C11_LayoutMismatchFailsCall ==
    LayoutRefused =>
        /\ pc \in {"start", "alloc_dst", "open_output", "cleanup", "done", "crashed"}
        /\ neg_ret \in {2, -1}
        /\ encoder_ctx.channel_layout \notin DeclaredLayouts
        /\ ~ptr["enc"]
        /\ failStage \notin OutputStagesAfterParams
        /\ bioSize = 0
        /\ Returned => (ret # 0 /\ Failed /\ out = NoOut)

C11_Witness ==
    /\ Returned /\ LayoutRefused
    /\ failStage = "out_set_params" /\ neg_ret = -1
    /\ ret # 0 /\ bioSize = 0 /\ acq["enc"] = 1 /\ rel["enc"] = 1

DeclaredFmts ==
    { encoder.sample_fmts[i] : i \in 1..(Len(encoder.sample_fmts) - 1) }

\* C12: for an encoder that declares a finite set of sample formats, the only
\* error negotiation can give is the layout one; when it succeeds the output
\* format is the input format if that is in the set and the encoder's first
\* declared format otherwise, so it is always a member of the set.
C12_FormatFallbackToFirstDeclared ==
    (pc = "neg_done" /\ encoder.sample_fmts # << >>) =>
        /\ neg_ret # 0 => LayoutRefused
        /\ neg_ret = 0 =>
             /\ encoder_ctx.sample_fmt =
                    IF input_ctx.sample_fmt \in DeclaredFmts THEN input_ctx.sample_fmt
                    ELSE encoder.sample_fmts[1]
             /\ encoder_ctx.sample_fmt \in DeclaredFmts

C12_Witness ==
    /\ pc = "neg_done" /\ neg_ret = 0
    /\ encoder.sample_fmts = <<3, 8, -1>>
    /\ input_ctx.sample_fmt = 1
    /\ encoder_ctx.sample_fmt = 3

LexLess(a, b) ==
    \E i \in 1..Len(a) : a[i] < b[i] /\ \A j \in 1..(i - 1) : a[j] = b[j]

\* what the input can still give: packets, held-back frames, the final empty flush
InputLeft == 2 * pktLeft + decPending + (IF finished THEN 0 ELSE 1)

LoopPos ==
    CASE pc = "loop_top" -> IF FillCond(fifoSize, output_frame_size) THEN 6 ELSE 9
      [] pc = "fill" -> IF FillCond(fifoSize, output_frame_size) THEN 5 ELSE 8
      [] pc = "drain" ->
           IF DrainCond(fifoSize, output_frame_size, finished) THEN 7 ELSE 10
      [] pc = "flush" -> 4
      [] pc = "trailer" -> 3
      [] pc = "report" -> 2
      [] pc = "cleanup" -> 1
      [] OTHER -> 0

Variant == << InputLeft, fifoSize, encPending, LoopPos >>

FromLoop == pc \in {"loop_top", "fill", "drain", "flush", "trailer", "report", "cleanup"}

\* C13: the loop does not run forever.  Every step taken from the loop entry on
\* changes the state and strictly decreases a variant that is bounded below
\* (input left, FIFO level, packets held by the encoder, position), whatever
\* the encoder's frame size; the only states without a next step are the
\* return and the states in which the process has been ended: the dereference
\* of a handle whose allocation failed (the FIFO, the destination descriptor)
\* and the second free of the converted-sample array; and the call returns with
\* the trailer written or with a failure recorded.
C13_LoopTerminates ==
    /\ [](pc \in {"done", "crashed"} \/ ENABLED <<Next>>_vars)
    /\ [](pc = "crashed" =>
            (~ptr["fifo"] \/ dst = "none" \/ lastBlk.arrFrees > lastBlk.arrAllocs))
    /\ [](~ENABLED (Next /\ UNCHANGED vars))
    /\ [][FromLoop => LexLess(Variant', Variant)]_vars
    /\ [](Returned => (trailerDone \/ Failed))

C13_Witness ==
    /\ Returned /\ trailerDone /\ ~Failed
    /\ chunks >= 3 /\ decoded >= 4 /\ lastChunk.n < output_frame_size
    /\ pktLeft = 0 /\ decPending = 0 /\ encPending = 0 /\ fifoSize = 0

\* the calls of a step in which the decoder, given the empty packet, gave no frame
FlushCallNoFrame == <<"read_frame", "decode_flush">>
\* the first calls of a step in which it gave one
FlushCallFrame == <<"read_frame", "decode_flush", "frame">>

HasPrefix(seq, pre) == Len(seq) >= Len(pre) /\ SubSeq(seq, 1, Len(pre)) = pre

C14_Step ==
    /\ (finished' /\ ~finished) => lastOps' = FlushCallNoFrame
    /\ (pc = "fill" /\ HasPrefix(lastOps', FlushCallFrame)) =>
         /\ ~finished'
         /\ decPending' = decPending - 1
         /\ (failStage' = "none" /\ pc' # "crashed") =>
              /\ lastOps' = FlushCallFrame \o <<"convert">>
                              \o (IF lastConv'.got > 0
                                  THEN <<"fifo_realloc", "fifo_write">> ELSE << >>)
              /\ decoded' = decoded + lastConv'.n
              /\ converted' = converted + lastConv'.got
              /\ fifoSize' = fifoSize + lastConv'.got
              /\ pc' = "fill"

\* C14: the finished flag is raised only by a step whose decode call was made
\* with the empty packet after end of input and gave no frame.  A flush call
\* that gives a frame leaves the flag cleared and, unless a stage fails, the
\* frame is converted, the converted samples are written to the FIFO and the
\* fill loop goes on; the encoder flush and the trailer are reached only with
\* the flag set, no packet left and no frame left in the decoder, so a later
\* flush call gave no frame.
C14_DecoderFlushedToTheEnd ==
    /\ [][C14_Step]_vars
    /\ []((finished /\ failStage # "decode") => (pktLeft = 0 /\ decPending = 0))
    /\ [](pc \in {"flush", "trailer", "report"} => finished)
    /\ [](Succeeded => (finished /\ pktLeft = 0 /\ decPending = 0))

C14_Witness ==
    /\ pc = "fill" /\ ~finished /\ pktLeft = 0 /\ failStage = "none"
    /\ lastOps = FlushCallFrame \o <<"convert", "fifo_realloc", "fifo_write">>
    /\ lastConv.got > 0 /\ fifoSize >= lastConv.got

FlushCallNoPacket == <<"encode_flush">>
FlushCallPacket == <<"encode_flush", "packet", "write_frame">>

C15_Step ==
    /\ (pc' = "flush" /\ pc # "flush") => (pc = "drain" /\ finished /\ fifoSize = 0)
    /\ HasPrefix(lastOps', FlushCallNoPacket) =>
         (pc = "flush" /\ finished /\ fifoSize = 0 /\ pktLeft = 0)
    /\ (pc = "flush" /\ pc' # "flush") => HasPrefix(lastOps', FlushCallNoPacket)
    /\ (pc = "flush" /\ lastOps' = FlushCallPacket) =>
         \/ /\ failStage' = "write_frame" /\ pc' = "cleanup"
         \/ /\ failStage' = "none" /\ pc' = "flush"
            /\ bioSize' = bioSize + PacketBytes
            /\ encPending' = encPending - 1
    /\ (pc = "flush" /\ lastOps' = FlushCallNoPacket) =>
         \/ /\ failStage' = "encode" /\ pc' = "cleanup"
         \/ /\ failStage' = "none" /\ pc' = "trailer"
            /\ bioSize' = bioSize /\ encPending' = 0
    /\ pc' = "trailer" =>
         (pc = "flush" /\ lastOps' = FlushCallNoPacket /\ failStage' = "none")
    /\ lastOps' = <<"write_trailer">> => pc = "trailer"

\* C15: encode calls with no frame are made only once the finished flag is set
\* and the FIFO is empty; the flush is left only through such a call; a flush
\* call that gives a packet writes it and is followed by another flush call; and
\* the trailer is written only after a flush call that gave no packet.
C15_EncoderFlushThenTrailer == [][C15_Step]_vars

C15_Witness ==
    /\ pc = "flush" /\ lastOps = FlushCallPacket /\ failStage = "none"
    /\ finished /\ fifoSize = 0
    /\ chunks >= 2 /\ encPending = 0

\* a step that pulls a packet starts by reading the container
PullsPacket == HasPrefix(lastOps', <<"read_frame">>)

C16_PullStep ==
    PullsPacket => (pc = "fill" /\ fifoSize < output_frame_size /\ ~finished)

\* the FILLING phase starts at loop_top; the DRAINING phase has ended at
\* loop_top (another round) and at flush (input exhausted)
AtPhaseEnds == pc \in {"loop_top", "flush"}

\* C16 as claimed: a packet is pulled only while the FIFO holds fewer samples
\* than the frame size and input is not exhausted, and at the start of every
\* FILLING phase and at the end of every DRAINING phase the FIFO holds fewer than
\* frame-size samples.
C16_FifoBelowFrameSizeAtPhaseEnds ==
    /\ [][C16_PullStep]_vars
    /\ [](AtPhaseEnds => fifoSize < output_frame_size)

\* C16 amended: a packet is pulled only while the FIFO holds fewer samples than
\* the frame size and input is not exhausted; for an encoder with a positive
\* frame size the FIFO holds fewer than frame-size samples at the start of every
\* FILLING phase and at the end of every DRAINING phase; with frame size 0 the
\* FIFO is empty at the start of the one FILLING phase, no packet is pulled and
\* the DRAINING phase does not end but by a failure.
C16_FifoBelowPositiveFrameSizeAtPhaseEnds ==
    /\ [][C16_PullStep]_vars
    /\ []((AtPhaseEnds /\ output_frame_size > 0) => fifoSize < output_frame_size)
    /\ [](output_frame_size = 0 =>
            /\ fifoSize = 0 /\ decoded = 0 /\ lastOps = << >>
            /\ pc \notin {"flush", "trailer", "report"}
            /\ (pc = "loop_top" => chunks = 0))

C16_Witness ==
    /\ pc = "loop_top" /\ chunks >= 1
    /\ fifoSize > 0 /\ fifoSize < output_frame_size
    /\ decoded >= 4 /\ pktLeft > 0

ShortChunk(c) == c.n < output_frame_size

C17_Step ==
    chunks' # chunks =>
        /\ lastOps'[1] = "fifo_read" /\ lastRead'.got = lastChunk'.n
        /\ \/ lastChunk'.n = output_frame_size
           \/ /\ finished
              /\ lastChunk'.n > 0 /\ ShortChunk(lastChunk')
              /\ fifoSize' = 0
        /\ chunks > 0 => ~ShortChunk(lastChunk)

\* C17: every chunk handed to the encoder has exactly the encoder's frame size,
\* except that a shorter one is handed over when input is exhausted and it
\* empties the FIFO; no chunk follows a short one, so there is at most one and it
\* is the last: all chunks before the last one are full.
C17_OnlyLastChunkShort ==
    /\ [][C17_Step]_vars
    /\ [](chunks > 0 =>
            /\ lastChunk.pts = (chunks - 1) * output_frame_size
            /\ lastChunk.n >= 1 /\ lastChunk.n <= output_frame_size
            /\ ShortChunk(lastChunk) => (finished /\ fifoSize = 0))

C17_Witness ==
    /\ Succeeded /\ chunks >= 2
    /\ lastChunk.n = 1 /\ output_frame_size = 3
    /\ lastChunk.pts = (chunks - 1) * 3

Has(seq, x) == \E i \in 1..Len(seq) : seq[i] = x

\* a step that hands a chunk to the encoder: the calls up to the encode call
ChunkCalls == <<"fifo_read", "stamp", "encode">>

C18_Step ==
    /\ (Has(lastOps', "encode") \/ Has(lastOps', "stamp") \/ chunks' # chunks) =>
         /\ HasPrefix(lastOps', ChunkCalls)
         /\ chunks' = chunks + 1
         /\ lastChunk'.pts = pts
         /\ pts' = pts + lastChunk'.n
         /\ failStage' \in {"none", "encode", "write_frame"}
    /\ Has(lastOps', "encode_flush") =>
         (pts' = pts /\ chunks' = chunks /\ lastChunk' = lastChunk)
    /\ pts' # pts => HasPrefix(lastOps', ChunkCalls)

\* C18: in every step that submits a chunk the timestamp is set and the
\* accumulator advanced before the encode call: the chunk carries the
\* accumulator's value from before the step and the accumulator has grown by the
\* chunk's sample count after it, whether the encoder gave a packet, gave none
\* or failed; a flush call leaves the accumulator as it was, and nothing else
\* changes it.
C18_StampBeforeEncode == [][C18_Step]_vars

C18_Witness ==
    /\ failStage = "encode" /\ pc = "cleanup"
    /\ lastOps = ChunkCalls
    /\ chunks >= 2 /\ lastChunk.pts > 0
    /\ pts = lastChunk.pts + lastChunk.n

\* the rates of the conversion
InRate == input_ctx.sample_rate
OutRate == encoder_ctx.sample_rate

\* c = ceil(x / InRate * OutRate), stated without a division
IsCeilScaled(c, x) ==
    /\ c * InRate >= x * OutRate
    /\ (c - 1) * InRate < x * OutRate

C19_Step ==
    Has(lastOps', "convert") =>
        /\ lastConv'.n >= 1
        /\ lastConv'.delay = swr_get_delay(decoded, converted, InRate, OutRate)
        /\ IsCeilScaled(lastConv'.capacity, lastConv'.delay + lastConv'.n)
        /\ lastConv'.got <= lastConv'.capacity
        /\ decoded' = decoded + lastConv'.n
        /\ lastConv'.got >= 0 => converted' = converted + lastConv'.got

\* C19: for each decoded frame of n samples the capacity asked of the resampler
\* is ceil((delay + n) * output_rate / input_rate), delay being what the
\* resampler holds, in input-rate samples, in the state the conversion starts
\* from; the count the conversion reports is at most that capacity.
C19_CapacityCoversDelayAndFrame == [][C19_Step]_vars

\* the converter gave more than a capacity sized for the frame alone would hold
C19_Witness ==
    /\ Has(lastOps, "convert") /\ failStage = "none"
    /\ InRate # OutRate
    /\ lastConv.delay >= 1
    /\ lastConv.capacity > (lastConv.n * OutRate + InRate - 1) \div InRate
    /\ lastConv.got > (lastConv.n * OutRate + InRate - 1) \div InRate

\* the library call a failing stage of the loop is (the stages that fail before
\* any of the loop's calls, or between two of them, have none)
StageCalls(stage) ==
    CASE stage = "decode" -> {"decode", "decode_flush"}
      [] stage = "encode" -> {"encode", "encode_flush"}
      [] stage \in {"read_frame", "convert", "fifo_realloc", "fifo_write",
                    "fifo_read", "write_frame", "write_trailer"} -> {stage}
      [] OTHER -> {}

NoRepeat(seq) == \A i, j \in 1..Len(seq) : seq[i] = seq[j] => i = j

C20_Step ==
    /\ failStage # "none" =>
         /\ pc = "cleanup" /\ pc' = "done"
         /\ lastOps' = << >> /\ lastConv' = NoConv
         /\ failStage' = failStage
         /\ UNCHANGED << loopVars, bioSize, trailerDone, acq, out, ret >>
    /\ (failStage = "none" /\ failStage' # "none") =>
         /\ pc' = "cleanup"
         /\ NoRepeat(lastOps')
         /\ IF StageCalls(failStage') = {}
            THEN lastOps' = << >> \/ lastOps'[Len(lastOps')] = "frame"
            ELSE lastOps' # << >> /\ lastOps'[Len(lastOps')] \in StageCalls(failStage')

\* C20: the step in which a stage first fails ends with the failing call (no
\* call of the loop is made after it, none is made twice) and leads to the
\* cleanup label; from then on the only step is the cleanup, which makes no
\* read, decode, conversion, FIFO access, encode, packet or trailer write,
\* acquires nothing and changes nothing but the handles it releases.
C20_NothingAfterFirstFailure ==
    /\ [][C20_Step]_vars
    /\ [](Failed => (pc \in {"cleanup", "done"} /\ ~trailerDone /\ ret # 0))

C20_Witness ==
    /\ Returned /\ failStage = "fifo_write"
    /\ pktLeft > 0 /\ chunks >= 1 /\ encPending > 0 /\ fifoSize > 0
    /\ ~trailerDone /\ ret # 0

\* the handles a header write needs: all made by the stages before it
SetupHandles == {"ifmt", "dec", "ofmt", "enc", "swr", "fifo"}

C21_Step ==
    /\ hdrWrites' # hdrWrites =>
         /\ hdrWrites = 0 /\ pc = "write_header"
         /\ neg_ret = 0 /\ failStage = "none"
         /\ \A r \in SetupHandles : ptr[r] /\ acq[r] = 1 /\ rel[r] = 0
         /\ decoded = 0 /\ chunks = 0 /\ bioSize = 0
    /\ (Has(lastOps', "read_frame") \/ Has(lastOps', "write_frame")) =>
         (hdrWrites = 1 /\ trlWrites = 0 /\ bioSize > 0)
    /\ trlWrites' # trlWrites =>
         (trlWrites = 0 /\ hdrWrites = 1 /\ pc = "trailer" /\ encPending = 0)
    /\ trlWrites = 1 => (lastOps' = << >> /\ bioSize' = bioSize)

\* C21: the header is written at most once, and once in a call that succeeds;
\* the step that writes it starts with negotiation done and the input, decoder,
\* output container, encoder, resampler and FIFO handles all made, and with no
\* packet read and no chunk encoded; packets are read and written only after
\* it; the trailer is written at most once, with the header written and no
\* packet held by the encoder, and no call of the loop follows it.
C21_HeaderOnceTrailerLast ==
    /\ [][C21_Step]_vars
    /\ [](hdrWrites <= 1 /\ trlWrites <= 1)
    /\ [](Succeeded => (hdrWrites = 1 /\ trlWrites = 1))

\* C22: when av_audio_fifo_alloc returns NULL the call is on its way out with a
\* failure recorded, the header has not been written and the FIFO handle is
\* never used: the call neither goes on to the header nor ends in the
\* dereference of the handle.
C22_FifoAllocFailureFailsBeforeHeader ==
    fifoAllocFailed =>
        /\ pc \in {"cleanup", "done"}
        /\ Failed /\ ret # 0
        /\ hdrWrites = 0

\* C23: in every step the pointer array and the sample storage of the
\* converted-sample block are each freed as many times as they were allocated
\* (once when allocated, not at all when not), and the array is not read once
\* it has been freed.
C23_ConvertedBlockFreedOnce ==
    /\ lastBlk.arrAllocs <= 1 /\ lastBlk.bufAllocs <= lastBlk.arrAllocs
    /\ lastBlk.arrFrees = lastBlk.arrAllocs
    /\ lastBlk.bufFrees = lastBlk.bufAllocs
    /\ ~lastBlk.staleUse

\* the states of the loop
InLoop == pc \in {"loop_top", "fill", "drain", "flush"}

C24_Step ==
    (Has(lastOps', "convert") /\ failStage' = "none") =>
        /\ lastConv'.got >= 0
        /\ converted' = converted + lastConv'.got
        /\ fifoSize' = fifoSize + lastConv'.got
        /\ pts' = pts
        /\ Has(lastOps', "fifo_write") <=> lastConv'.got > 0

\* C24: in every state of the loop the accumulator plus the FIFO size is the sum
\* of the counts the converter reported; a conversion step grows the FIFO by the
\* reported count, whatever the capacity offered, and a reported count of 0
\* writes nothing; when the trailer is written and when the call has succeeded
\* the FIFO is empty and the accumulator, which is the reported duration, is
\* that sum.
C24_SampleConservation ==
    /\ [][C24_Step]_vars
    /\ [](InLoop => pts + fifoSize = converted)
    /\ []((pc \in {"trailer", "report"} \/ Succeeded) =>
            (fifoSize = 0 /\ pts = converted))
    /\ [](Succeeded => out.dur_num = converted)

C24_Witness ==
    /\ pc = "fill" /\ Has(lastOps, "fifo_write")
    /\ lastConv.got > 0 /\ lastConv.got < lastConv.capacity
    /\ pts > 0 /\ fifoSize > lastConv.got
    /\ pts + fifoSize = converted

C25_Step ==
    (chunks' # chunks \/ Has(lastOps', "encode")) =>
        /\ pc = "drain" /\ chunks' = chunks + 1
        /\ lastChunk'.n >= 1
        /\ lastChunk'.n <= output_frame_size
        /\ lastChunk'.n <= fifoSize
        /\ fifoSize' = fifoSize - lastChunk'.n

\* C25: every chunk handed to the encoder by a drain step holds at least 1
\* sample, at most the encoder's frame size and at most what the FIFO held; for
\* an encoder that declares frame size 0 no chunk is handed over at all: the
\* FIFO is never read and the first drain step fails when the frame of 0 samples
\* is refused.
C25_NoEmptyChunkEncoded ==
    /\ [][C25_Step]_vars
    /\ [](chunks > 0 => (lastChunk.n >= 1 /\ output_frame_size >= 1))
    /\ [](output_frame_size = 0 =>
            /\ chunks = 0 /\ lastRead = NoRead /\ pts = 0
            /\ failStage \notin {"fifo_read", "encode", "write_frame"})

C25_Witness ==
    /\ pc = "cleanup" /\ output_frame_size = 0
    /\ failStage = "output_frame" /\ hdrWrites = 1
    /\ chunks = 0 /\ fifoSize = 0 /\ lastRead = NoRead

ReadsOrDecodes(ops) ==
    Has(ops, "read_frame") \/ Has(ops, "decode") \/ Has(ops, "decode_flush")

C26_Step ==
    /\ (~finished /\ finished' /\ failStage' = "none") =>
         (pc = "fill" /\ lastOps' = FlushCallNoFrame /\ pc' = "drain")
    /\ finished =>
         /\ finished'
         /\ ~ReadsOrDecodes(lastOps')
         /\ pktLeft' = pktLeft /\ decPending' = decPending /\ decoded' = decoded
         /\ pc' \notin {"loop_top", "fill"}
    /\ (finished /\ pc = "drain" /\ failStage' = "none") =>
         /\ pc' \in {"drain", "flush"}
         /\ pc' = "flush" <=> fifoSize = 0
    /\ pc = "loop_top" => (~finished /\ ~finished')

\* C26: once a flush decode has given no frame the finished flag stays set for
\* the rest of the call: no step reads a packet or calls the decoder again, the
\* top of the loop (where the flag is reset) and the fill loop are not entered
\* again, the drain loop runs until the FIFO is empty and is followed by the
\* encoder flush; the top of the loop is only ever reached with the flag clear.
C26_ExhaustionIsFinal ==
    /\ [][C26_Step]_vars
    /\ []((finished /\ ~Failed) =>
            pc \in {"drain", "flush", "trailer", "report", "cleanup", "done"})
    /\ []((finished /\ pc \in {"flush", "trailer", "report"}) => fifoSize = 0)

C26_Witness ==
    /\ pc = "trailer" /\ finished /\ ~Failed
    /\ lastOps = FlushCallNoPacket
    /\ chunks >= 3 /\ ShortChunk(lastChunk)
    /\ pktLeft = 0 /\ decPending = 0 /\ fifoSize = 0

====
